---- MODULE Spec2Model ----
(***************************************************************************)
(* A model of metachem/templates/WellMixedTank.py: the assembly of the     *)
(* well-mixed tank control graph, its loader, its decision node and its    *)
(* two reaction observers, run by a driver that visits one node at a time  *)
(* (read, pull, process, push) and follows the selected out-edge.          *)
(*                                                                         *)
(* The containers and generic control nodes of metachem (CoreContainer,    *)
(* CoreControl, CoreNode, Simulate) are not part of WellMixedTank.py; they *)
(* are modelled from the specification text and marked so in the map.      *)
(***************************************************************************)
EXTENDS Integers, Sequences, FiniteSets, TLC

\* ---------------------------------------------------------------- bounds
MaxSample == 2
MaxReactions == 2
MaxGenerations == 2
MaxTank == 2
MaxCount == 2
MaxCreated == 1
MaxFiles == 3
MaxExports == 3

VARIABLES
    \* arguments of WellMixedTank.__init__
    bondgraph,      \* [count_control_in, count_control_out, count_links, kind]
    sample_size, reactions, generations, tank_size, load_type, load_file,
    \* the assembled graph
    containers,     \* names of the containers created so far
    nodes,          \* names of the control nodes created so far
    graph_edges,    \* the control edges wired so far, in insertion order
    \* containers
    TTank, TNew, SComposite, VTime, VGen, VBond, VReaction,
    \* node fields
    timings,        \* TimingsDecision: thresholds and the three values last read
    \* the file system
    Outputs,        \* the files of the directory Outputs: path -> content
    \* the driver
    pc,             \* the node to visit next, or how the program ended
    visited,        \* the node visited last
    branch,         \* the result of the last decision visit (-1: none yet)
    \* history (not program state)
    loaded,         \* items the loader put into the pool
    created,        \* items ever created (loaded, or made by the reaction subgraph)
    consumed,       \* items the reaction subgraph received and did not return
    resets,         \* visits of the per-generation reset
    advances,       \* decision visits that returned 1
    attempts,       \* reaction attempts performed since the last reset
    exported        \* the paths results_to_csv has returned, in call order

vars == <<bondgraph, sample_size, reactions, generations, tank_size, load_type,
          load_file, containers, nodes, graph_edges, TTank, TNew, SComposite,
          VTime, VGen, VBond, VReaction, timings, pc, visited, branch, loaded,
          created, consumed, resets, advances, attempts, Outputs, exported>>

cfgvars == <<bondgraph, sample_size, reactions, generations, tank_size,
             load_type, load_file>>
graphvars == <<containers, nodes, graph_edges>>
histvars == <<loaded, created, consumed, resets, advances, attempts>>
fsvars == <<Outputs, exported>>

\* ----------------------------------------------------------- value tags
\* Values of different Python types that meet in one field are tagged.
Str(s) == [str |-> s]
Id(n) == [id |-> n]
Obj(x) == [obj |-> x]
Num(n) == [num |-> n]

\* ---------------------------------------------------------------- items
\* What a tank holds.  id is the object's identity; only a Particle exposes
\* it.  kind: "int", "str" (plain values), "Particle", "RBN" (RBNParticle).
ParticleKinds == {"Particle", "RBN"}

isParticle(x) == x.kind \in ParticleKinds

isRBNParticle(x) == x.kind = "RBN"

Item(i, k, open, bonded) ==
    [id |-> i, kind |-> k, atoms |-> 1, open_spikes |-> open, bonds |-> bonded]

WatsonSpike(n, v) == [spikeNumber |-> n, intensity |-> v]

\* The open spikes of a freshly made RBN particle; each entry is a tuple
\* whose first component is the spike.
FreshSpikes(i) == << <<WatsonSpike(1, i)>>, <<WatsonSpike(2, -1)>> >>

NewItem(i, k) == Item(i, k, IF k = "RBN" THEN FreshSpikes(i) ELSE <<>>, <<>>)

\* ------------------------------------------------------------ arguments
LoadTypes == {"None", "scc", "int", "RBN", "csv", "factory", "other"}
LoadFiles == {"None", "file"}

\* (load_type, load_file, tank_size).  load_file is read only when
\* load_type is "csv" (LoadSampler.read) and tank_size is never read then
\* (LoadSampler.pull), so each is varied only where it is read.
LoadArgs ==
    {a \in LoadTypes \X LoadFiles \X (0..MaxTank) :
        /\ a[1] # "csv" => a[2] = "None"
        /\ a[1] = "csv" => a[3] = 0}
BondKinds == {"inert", "bond", "merge", "swap"}

\* The arguments WellMixedTank.__init__ may be given.
Bondgraphs ==
    [count_control_in : 0..MaxCount, count_control_out : 0..MaxCount,
     count_links : 0..MaxCount, kind : BondKinds]

\* Before the tank is constructed nothing is stored: the argument
\* variables hold placeholders until WellMixedTank_init receives them.
Init ==
    /\ bondgraph = [count_control_in |-> 0, count_control_out |-> 0,
                    count_links |-> 0, kind |-> "inert"]
    /\ sample_size = 0
    /\ reactions = 0
    /\ generations = 0
    /\ tank_size = 0
    /\ load_type = "None"
    /\ load_file = "None"
    /\ containers = {}
    /\ nodes = {}
    /\ graph_edges = <<>>
    /\ TTank = {}
    /\ TNew = {}
    /\ SComposite = <<>>
    /\ VTime = 0
    /\ VGen = 0
    /\ VBond = [k \in {} |-> Str("")]
    /\ VReaction = <<>>
    /\ timings = [time_thresh |-> 0, gen_thresh |-> 0, sample_size |-> 0,
               time |-> 0, gen |-> 0, tank_size |-> 0]
    /\ pc = "new"
    /\ visited = "none"
    /\ branch = -1
    /\ loaded = 0
    /\ created = 0
    /\ consumed = 0
    /\ resets = 0
    /\ advances = 0
    /\ attempts = 0
    /\ Outputs = <<>>
    /\ exported = <<>>

\* -------------------------------------------------------- graph assembly
\* The check without the link count.
bondgraph_ok_no_links(bg) ==
    bg.count_control_in = 1 /\ bg.count_control_out = 1

\* WellMixedTank.__init__: the bondgraph check.
bondgraph_ok(bg) ==
    bg.count_control_in = 1 /\ bg.count_control_out = 1 /\ bg.count_links = 1

ContainerNames ==
    {"TTank", "TNew", "VTime", "VGen", "VBond", "VReaction", "SComposite", "VLog"}

NodeNames ==
    {"sload", "ssample", "sreturn", "sgeneration", "ssimulation", "tterm",
     "otime", "oreset", "ogen", "dgen", "osample", "oreturn", "olog"}

\* The edges with the decision's edge 2 going straight to the terminal node.
edges_no_drain ==
    << <<"sload", "otime">>, <<"otime", "oreset">>, <<"oreset", "ssample">>,
       <<"ssample", "osample">>, <<"oreturn", "sreturn">>,
       <<"sreturn", "ogen">>, <<"ogen", "dgen">>, <<"dgen", "ssample">>,
       <<"dgen", "sgeneration">>, <<"sgeneration", "olog">>,
       <<"olog", "otime">>, <<"dgen", "tterm">>,
       <<"ssimulation", "tterm">> >>

\* The edges with the decision's edge 0 going to the reset, not the sampler.
edges_reset_each ==
    << <<"sload", "otime">>, <<"otime", "oreset">>, <<"oreset", "ssample">>,
       <<"ssample", "osample">>, <<"oreturn", "sreturn">>,
       <<"sreturn", "ogen">>, <<"ogen", "dgen">>, <<"dgen", "oreset">>,
       <<"dgen", "sgeneration">>, <<"sgeneration", "olog">>,
       <<"olog", "otime">>, <<"dgen", "ssimulation">>,
       <<"ssimulation", "tterm">> >>

\* The edges with the decision's second and third out-edge exchanged.
edges_terminate_first ==
    << <<"sload", "otime">>, <<"otime", "oreset">>, <<"oreset", "ssample">>,
       <<"ssample", "osample">>, <<"oreturn", "sreturn">>,
       <<"sreturn", "ogen">>, <<"ogen", "dgen">>, <<"dgen", "ssample">>,
       <<"dgen", "ssimulation">>, <<"sgeneration", "olog">>,
       <<"olog", "otime">>, <<"dgen", "sgeneration">>,
       <<"ssimulation", "tterm">> >>

\* The edges with the generation drain after every return instead of after
\* the decision's result 1.
edges_drain_each ==
    << <<"sload", "otime">>, <<"otime", "oreset">>, <<"oreset", "ssample">>,
       <<"ssample", "osample">>, <<"oreturn", "sreturn">>,
       <<"sreturn", "sgeneration">>, <<"ogen", "dgen">>, <<"dgen", "ssample">>,
       <<"dgen", "olog">>, <<"sgeneration", "ogen">>,
       <<"olog", "otime">>, <<"dgen", "ssimulation">>,
       <<"ssimulation", "tterm">> >>

\* The stable control edges, in the order they are added to the graph.
edges ==
    << <<"sload", "otime">>, <<"otime", "oreset">>, <<"oreset", "ssample">>,
       <<"ssample", "osample">>, <<"oreturn", "sreturn">>,
       <<"sreturn", "ogen">>, <<"ogen", "dgen">>, <<"dgen", "ssample">>,
       <<"dgen", "sgeneration">>, <<"sgeneration", "olog">>,
       <<"olog", "otime">>, <<"dgen", "ssimulation">>,
       <<"ssimulation", "tterm">> >>

\* The edges that splice the reaction subgraph in; the subgraph is one
\* vertex "bond" here (its control-in and control-out).
bond_edges == << <<"osample", "bond">>, <<"bond", "oreturn">> >>

\* TimingsDecision(graph, [VGen, VTime, TTank], generations, reactions,
\* sample_size) against __init__(graph, readcontainers, time_thresh,
\* gen_thresh, sample_size).
TimingsDecision_init(gens, reacts, size) ==
    [time_thresh |-> gens, gen_thresh |-> reacts, sample_size |-> size,
     time |-> 0, gen |-> 0, tank_size |-> 0]

WellMixedTank_init ==
    /\ pc = "new"
    /\ visited' = "new"
    /\ \E bg \in Bondgraphs :
          /\ bondgraph' = bg
          /\ IF ~bondgraph_ok(bg)
             THEN /\ pc' = "ValueError"
                  /\ UNCHANGED <<sample_size, reactions, generations,
                                 tank_size, load_type, load_file, graphvars,
                                 timings>>
             ELSE /\ sample_size' \in 0..MaxSample
                  /\ reactions' \in 0..MaxReactions
                  /\ generations' \in 0..MaxGenerations
                  /\ \E a \in LoadArgs : /\ load_type' = a[1]
                                         /\ load_file' = a[2]
                                         /\ tank_size' = a[3]
                  /\ containers' = ContainerNames
                  /\ nodes' = NodeNames
                  /\ graph_edges' = edges \o bond_edges
                  /\ timings' = TimingsDecision_init(generations', reactions',
                                                     sample_size')
                  /\ pc' = "sload"
    \* VTime.add(0) and VGen.add(0): both counters already hold 0
    /\ UNCHANGED <<TTank, TNew, SComposite, VTime, VGen, VBond, VReaction,
                   branch, histvars, fsvars>>

\* ---------------------------------------------------------------- driver
\* The targets of node n's out-edges, in insertion order.
RECURSIVE OutEdges(_, _)
OutEdges(es, n) ==
    IF es = <<>> THEN <<>>
    ELSE (IF Head(es)[1] = n THEN <<Head(es)[2]>> ELSE <<>>)
         \o OutEdges(Tail(es), n)

\* The node the driver visits after n when n selected out-edge k.
Succ(n, k) ==
    LET out == OutEdges(graph_edges, n)
    IN  IF k + 1 \in DOMAIN out THEN out[k + 1] ELSE "done"

\* A visit changes the driver's position: n was visited, out-edge k is taken.
Step(n, k) ==
    /\ visited' = n
    /\ pc' = Succ(n, k)

\* A visit ends the run with error e raised inside node n.
Raise(n, e) ==
    /\ visited' = n
    /\ pc' = e

\* ---------------------------------------------------------------- loader
\* The items a generator makes: n new items of kind k, after `made` others.
Generate(made, n, k) == {NewItem(made + i, k) : i \in 1..n}

\* LoadSampler.read: only "csv" reads, from load_file; no file, no read.
LoadSampler_read_fails(type, file) == type = "csv" /\ file = "None"

\* LoadSampler.pull: the sample each load type generates; any other type
\* leaves the sample as it was (s).
LoadSampler_pull(type, size, s) ==
    IF type = "scc" THEN Generate(created, size, "str")
    ELSE IF type = "int" THEN Generate(created, size, "int")
    ELSE IF type = "RBN" THEN Generate(created, size, "RBN")
    ELSE IF type = "factory" THEN Generate(created, size, "Particle")
    ELSE s

\* A push that adds nothing.
LoadSampler_push_nothing(tank, sample) == tank

\* LoadSampler.push: the output tank after the sample is added to it.
LoadSampler_push(tank, sample) == tank \cup sample

\* LoadSampler(graph, containersout=TTank, tank_size, load_type, load_file)
sload ==
    /\ pc = "sload"
    /\ IF LoadSampler_read_fails(load_type, load_file)
       THEN /\ Raise("sload", "ConfigurationError")
            /\ UNCHANGED <<TTank, loaded, created>>
       ELSE \E row \in 0..MaxTank :
            LET \* read: the row of the csv file, else the sampler's empty sample
                read == IF load_type = "csv"
                        THEN Generate(created, row, "str") ELSE {}
                sample == LoadSampler_pull(load_type, tank_size, read)
            IN  /\ (load_type # "csv" => row = 0)
                /\ TTank' = LoadSampler_push(TTank, sample)
                /\ loaded' = loaded + Cardinality(sample)
                /\ created' = created + Cardinality(sample)
                /\ Step("sload", 0)
    /\ UNCHANGED <<cfgvars, graphvars, fsvars, TNew, SComposite, VTime, VGen, VBond,
                   VReaction, timings, branch, consumed, resets, advances,
                   attempts>>

\* ------------------------------------------------ clocks and the logger
\* CoreControl.ClockObserver: the counter after a tick.
ClockObserver(v) == v + 1

\* CoreControl.ClockResetObserver: the counter after a reset.
ClockResetObserver(v) == 0

\* otime = ClockObserver(graph, VTime, VTime)
otime ==
    /\ pc = "otime"
    /\ VTime' = ClockObserver(VTime)
    /\ Step("otime", 0)
    /\ UNCHANGED <<cfgvars, graphvars, fsvars, TTank, TNew, SComposite, VGen, VBond,
                   VReaction, timings, branch, histvars>>

\* oreset = ClockResetObserver(graph, VGen, VGen)
oreset ==
    /\ pc = "oreset"
    /\ VGen' = ClockResetObserver(VGen)
    /\ resets' = resets + 1
    /\ attempts' = 0
    /\ Step("oreset", 0)
    /\ UNCHANGED <<cfgvars, graphvars, fsvars, TTank, TNew, SComposite, VTime, VBond,
                   VReaction, timings, branch, loaded, created, consumed,
                   advances>>

\* ogen = ClockObserver(graph, VGen, VGen)
ogen ==
    /\ pc = "ogen"
    /\ VGen' = ClockObserver(VGen)
    /\ Step("ogen", 0)
    /\ UNCHANGED <<cfgvars, graphvars, fsvars, TTank, TNew, SComposite, VTime, VBond,
                   VReaction, timings, branch, histvars>>

\* TimeLoggerObserver: reads both counters and prints them.
olog ==
    /\ pc = "olog"
    /\ Step("olog", 0)
    /\ UNCHANGED <<cfgvars, graphvars, fsvars, TTank, TNew, SComposite, VTime, VGen,
                   VBond, VReaction, timings, branch, histvars>>

\* -------------------------------------------------------------- samplers
Range(s) == {s[i] : i \in DOMAIN s}

\* The ordered samples of n distinct items of tank.
Samples(tank, n) ==
    {s \in [1..n -> tank] : \A i, j \in 1..n : i # j => s[i] # s[j]}

\* A sampler asked for more items than its source holds.
InsufficientPopulation(tank, n) == Cardinality(tank) < n

\* ssample = SimpleSampler(graph, TTank, SComposite, size=sample_size)
ssample ==
    /\ pc = "ssample"
    /\ IF InsufficientPopulation(TTank, sample_size)
       THEN /\ Raise("ssample", "InsufficientPopulationError")
            /\ UNCHANGED <<TTank, SComposite>>
       ELSE \E s \in Samples(TTank, sample_size) :
            /\ TTank' = TTank \ Range(s)
            /\ SComposite' = SComposite \o s
            /\ Step("ssample", 0)
    /\ UNCHANGED <<cfgvars, graphvars, fsvars, TNew, VTime, VGen, VBond, VReaction,
                   timings, branch, histvars>>

\* sreturn = BruteSampler(graph, SComposite, TNew)
sreturn ==
    /\ pc = "sreturn"
    /\ TNew' = TNew \cup Range(SComposite)
    /\ SComposite' = <<>>
    /\ Step("sreturn", 0)
    /\ UNCHANGED <<cfgvars, graphvars, fsvars, TTank, VTime, VGen, VBond, VReaction,
                   timings, branch, histvars>>

\* sgeneration = BruteSampler(graph, TNew, TTank), on the decision's edge 1
sgeneration ==
    /\ pc = "sgeneration"
    /\ TTank' = TTank \cup TNew
    /\ TNew' = {}
    /\ Step("sgeneration", 0)
    /\ UNCHANGED <<cfgvars, graphvars, fsvars, SComposite, VTime, VGen, VBond,
                   VReaction, timings, branch, histvars>>

\* ssimulation = BruteSampler(graph, TNew, TTank), on the decision's edge 2
ssimulation ==
    /\ pc = "ssimulation"
    /\ TTank' = TTank \cup TNew
    /\ TNew' = {}
    /\ Step("ssimulation", 0)
    /\ UNCHANGED <<cfgvars, graphvars, fsvars, SComposite, VTime, VGen, VBond,
                   VReaction, timings, branch, histvars>>

\* tterm = CoreNode.Termination(graph): the driver stops here.
tterm ==
    /\ pc = "tterm"
    /\ visited' = "tterm"
    /\ pc' = "done"
    /\ UNCHANGED <<cfgvars, graphvars, fsvars, TTank, TNew, SComposite, VTime, VGen,
                   VBond, VReaction, timings, branch, histvars>>

\* -------------------------------------------------------------- decision
\* What reading a container yields.
Read(c) ==
    CASE c = "VGen" -> VGen
      [] c = "VTime" -> VTime
      [] c = "TTank" -> TTank
      [] c = "TNew" -> TNew
      [] c = "SComposite" -> SComposite
      [] c = "VBond" -> VBond
      [] c = "VReaction" -> VReaction

\* The first two read containers exchanged.
dgen_readcontainers_swapped == <<"VTime", "VGen", "TTank">>

\* dgen's readcontainers, as WellMixedTank.__init__ passes them.
dgen_readcontainers == <<"VGen", "VTime", "TTank">>

\* TimingsDecision.read
TimingsDecision_read(d, rc) ==
    [d EXCEPT !.gen = Read(rc[1]),
              !.time = Read(rc[2]),
              !.tank_size = Cardinality(Read(rc[3]))]

\* The counter compared with <= instead of <.
TimingsDecision_process_le(d) ==
    IF d.gen <= d.gen_thresh /\ d.tank_size >= d.sample_size THEN 0
    ELSE IF d.time < d.time_thresh THEN 1
    ELSE 2

\* The first condition without the pool size.
TimingsDecision_process_no_pool(d) ==
    IF d.gen < d.gen_thresh THEN 0
    ELSE IF d.time < d.time_thresh THEN 1
    ELSE 2

\* TimingsDecision.process
TimingsDecision_process(d) ==
    IF d.gen < d.gen_thresh /\ d.tank_size >= d.sample_size THEN 0
    ELSE IF d.time < d.time_thresh THEN 1
    ELSE 2

dgen ==
    /\ pc = "dgen"
    /\ LET d == TimingsDecision_read(timings, dgen_readcontainers)
           k == TimingsDecision_process(d)
       IN  /\ timings' = d
           /\ branch' = k
           /\ advances' = IF k = 1 THEN advances + 1 ELSE advances
           /\ Step("dgen", k)
    /\ UNCHANGED <<cfgvars, graphvars, fsvars, TTank, TNew, SComposite, VTime, VGen,
                   VBond, VReaction, loaded, created, consumed, resets,
                   attempts>>

\* ------------------------------------------------------------- observers
\* DictionaryEnvironment.remove and .add on the keyed store.
Remove(d, keys) == [k \in DOMAIN d \ keys |-> d[k]]

Update(d, new) == new @@ d

StagingKeys == {"id1", "id2", "obj1", "obj2"}

\* A process that fills the second pair with "n/a" for a one-item sample.
SampleObserver_process_no_sentinel(sample) ==
    LET two == Len(sample) > 1
    IN  [id1 |-> IF isParticle(sample[1]) THEN Id(sample[1].id) ELSE Str("n/a"),
         id2 |-> IF two /\ isParticle(sample[Len(sample)])
                 THEN Id(sample[2].id) ELSE Str("n/a"),
         obj1 |-> Obj(sample[1]),
         obj2 |-> IF two THEN Obj(sample[2]) ELSE Str("n/a")]

\* SampleObserver.process
SampleObserver_process(sample) ==
    LET id1 == IF isParticle(sample[1]) THEN Id(sample[1].id) ELSE Str("n/a")
        two == Len(sample) > 1
        id2 == IF two
               THEN (IF isParticle(sample[2]) THEN Id(sample[2].id)
                     ELSE Str("n/a"))
               ELSE Str("None")
        obj2 == IF two THEN Obj(sample[2]) ELSE Str("None")
        obj1 == Obj(sample[1])
    IN  [id1 |-> id1, id2 |-> id2, obj1 |-> obj1, obj2 |-> obj2]

\* SampleObserver(graph, VBond, VBond, SComposite)
osample ==
    /\ pc = "osample"
    /\ LET sample == Read("SComposite")              \* read
           pulled == Remove(VBond, StagingKeys)      \* pull
       IN  IF Len(sample) = 0
           THEN /\ VBond' = pulled
                /\ Raise("osample", "IndexError")
           ELSE /\ VBond' = Update(pulled, SampleObserver_process(sample))
                /\ Step("osample", 0)
    /\ UNCHANGED <<cfgvars, graphvars, fsvars, TTank, TNew, SComposite, VTime, VGen,
                   VReaction, timings, branch, histvars>>

RECURSIVE SumSeq(_)
SumSeq(s) == IF s = <<>> THEN 0 ELSE Head(s) + SumSeq(Tail(s))

\* [(spike[0].spikeNumber, spike[0].intensity) for spike in spikes]
SpikePairs(spikes) ==
    [i \in DOMAIN spikes |-> <<spikes[i][1].spikeNumber, spikes[i][1].intensity>>]

\* The sum over the open spikes only.
total_intensity_open_only(open_spikes, bonded_spikes) ==
    SumSeq([i \in DOMAIN open_spikes |-> open_spikes[i][2]])

\* sum(spike[1] for spike in open_spikes + bonded_spikes)
total_intensity(open_spikes, bonded_spikes) ==
    LET both == open_spikes \o bonded_spikes
    IN  SumSeq([i \in DOMAIN both |-> both[i][2]])

part_info(part) ==
    [desc |-> [ID |-> part.id, Atoms |-> part.atoms,
               Open |-> Len(part.open_spikes), Bonded |-> Len(part.bonds)]]

List(s) == [list |-> s]

\* The container ReturnObserver reads the generation from: its fourth
\* constructor argument, as WellMixedTank.__init__ passes it.
oreturn_VGen == "VGen"

\* ReturnObserver.process
ReturnObserver_process(sample, d, current_generation) ==
    IF \A i \in DOMAIN sample : isRBNParticle(sample[i])
    THEN Update(d,
           [Prods |-> [i \in DOMAIN sample |-> part_info(sample[i])],
            Open_Spikes |-> [i \in DOMAIN sample |->
                                List(SpikePairs(sample[i].open_spikes))],
            Bonded_Spikes |-> [i \in DOMAIN sample |->
                                List(SpikePairs(sample[i].bonds))],
            Intensity |-> [i \in DOMAIN sample |->
                             Num(total_intensity(
                                   SpikePairs(sample[i].open_spikes),
                                   SpikePairs(sample[i].bonds)))],
            Generation |-> Num(current_generation)])
    ELSE Update(d,
           [Prods |-> [i \in DOMAIN sample |-> Str("N/A")],
            Open_Spikes |-> [i \in DOMAIN sample |-> Str("N/A")],
            Bonded_Spikes |-> [i \in DOMAIN sample |-> Str("N/A")],
            Intensity |-> [i \in DOMAIN sample |-> Str("N/A")],
            Generation |-> Num(current_generation)])

\* A push that leaves the new row as the only one.
ReturnObserver_push_only(ledger, d) == <<d>>

\* ReturnObserver.push: the ledger after the row is added to it.
ReturnObserver_push(ledger, d) == Append(ledger, d)

\* ReturnObserver(graph, VBond, VReaction, VGen, SComposite).  read hands
\* out the keyed store itself, so process extends the store too.
oreturn ==
    /\ pc = "oreturn"
    /\ LET sample == Read("SComposite")
           d == ReturnObserver_process(sample, Read("VBond"), Read(oreturn_VGen))
       IN  /\ VBond' = d
           /\ VReaction' = ReturnObserver_push(VReaction, d)
    /\ Step("oreturn", 0)
    /\ UNCHANGED <<cfgvars, graphvars, fsvars, TTank, TNew, SComposite, VTime, VGen,
                   timings, branch, histvars>>

\* ---------------------------------------------------- reaction subgraph
\* The reaction subgraph is opaque; it works on the shared sample buffer.
\* Four behaviours stand for it: "inert" returns the sample as it is,
\* "bond" bonds the first open spike of every RBN particle, "merge" returns
\* one composite for a sample of two or more, "swap" returns a new item in
\* place of the first (at most MaxCreated times in a run).
BondSpike(x) ==
    IF isRBNParticle(x) /\ x.open_spikes # <<>>
    THEN [x EXCEPT !.open_spikes = Tail(@),
                   !.bonds = Append(@, Head(x.open_spikes))]
    ELSE x

Products(kind, sample, fresh) ==
    CASE kind = "inert" -> sample
      [] kind = "bond" -> [i \in DOMAIN sample |-> BondSpike(sample[i])]
      [] kind = "merge" ->
            IF Len(sample) >= 2
            THEN <<[sample[1] EXCEPT !.atoms = @ + sample[2].atoms]>>
                 \o SubSeq(sample, 3, Len(sample))
            ELSE sample
      [] kind = "swap" ->
            IF sample # <<>> /\ created - loaded < MaxCreated
            THEN <<NewItem(fresh, sample[1].kind)>> \o Tail(sample)
            ELSE sample

bond ==
    /\ pc = "bond"
    /\ LET out == Products(bondgraph.kind, SComposite, created + 1)
           ids(q) == {q[i].id : i \in DOMAIN q}
       IN  /\ SComposite' = out
           /\ created' = created + Cardinality(ids(out) \ ids(SComposite))
           /\ consumed' = consumed + Cardinality(ids(SComposite) \ ids(out))
    /\ attempts' = attempts + 1
    /\ Step("bond", 0)
    /\ UNCHANGED <<cfgvars, graphvars, fsvars, TTank, TNew, VTime, VGen, VBond,
                   VReaction, timings, branch, loaded, resets, advances>>

\* ---------------------------------------------------------------- export
\* The columns VReaction is created with.
VReaction_columns ==
    <<"id1", "id2", "obj1", "obj2", "Prods", "Open_Spikes", "Bonded_Spikes",
      "Intensity", "Generation">>

\* The path results_to_csv tries for a suffix: "Outputs/output.csv" itself
\* for 0, else the suffix between its base name and its extension.
file_path(suffix) ==
    IF suffix = 0 THEN "Outputs/output.csv"
    ELSE "Outputs/output" \o "_" \o ToString(suffix) \o ".csv"

\* A search that settles for the suffix it starts from.
first_free_unchecked(fs, suffix) == suffix

\* The while loop of results_to_csv: the first suffix, counting up from
\* `suffix`, whose path does not exist.
RECURSIVE first_free(_, _)
first_free(fs, suffix) ==
    IF file_path(suffix) \notin DOMAIN fs THEN suffix
    ELSE first_free(fs, suffix + 1)

\* DataFrame.to_csv(file, index=False): a header row and one row per record.
to_csv(ledger) ==
    [header |-> VReaction_columns,
     rows |-> [i \in DOMAIN ledger |->
                 [j \in DOMAIN VReaction_columns |->
                    ledger[i][VReaction_columns[j]]]]]

\* open(path, mode='w') and the write: the file is created or truncated.
open_w(fs, path, content) ==
    [p \in DOMAIN fs \cup {path} |-> IF p = path THEN content ELSE fs[p]]

\* WellMixedTank.results_to_csv, called on a constructed tank.
results_to_csv ==
    /\ pc \notin {"new", "ValueError"}
    /\ Len(exported) < MaxExports
    /\ LET path == file_path(first_free(Outputs, 0))
       IN  /\ Outputs' = open_w(Outputs, path, to_csv(Read("VReaction")))
           /\ exported' = Append(exported, path)
    /\ UNCHANGED <<cfgvars, graphvars, TTank, TNew, SComposite, VTime, VGen,
                   VBond, VReaction, timings, pc, visited, branch, histvars>>

\* ------------------------------------------------------- specification
Next ==
    \/ WellMixedTank_init
    \/ sload
    \/ otime
    \/ oreset
    \/ ssample
    \/ osample
    \/ bond
    \/ oreturn
    \/ sreturn
    \/ ogen
    \/ dgen
    \/ sgeneration
    \/ olog
    \/ ssimulation
    \/ tterm

Spec == Init /\ [][Next]_vars

\* ----------------------------------------------- claims about the run
Max(a, b) == IF a >= b THEN a ELSE b

Min(a, b) == IF a <= b THEN a ELSE b

\* The reaction subgraph returns as many items as it received.
Conserving == bondgraph.kind \in {"inert", "bond", "swap"}

GenerateModes == {"scc", "int", "RBN", "factory"}

\* C2: with a reaction subgraph that returns as many items as it received,
\* once the terminal node is reached the pool holds as many items as were
\* loaded (tank_size of them, for every mode but the external read, whose
\* row decides the number) and the sample buffer and the holding tank are
\* empty.
C2_AllReturned ==
    (pc \in {"tterm", "done"} /\ Conserving) =>
        /\ Cardinality(TTank) = loaded
        /\ (load_type # "csv" => Cardinality(TTank) = tank_size)
        /\ SComposite = <<>>
        /\ TNew = {}

\* The end-to-end example, at the largest tank of the model.
C2_Witness ==
    /\ pc = "done" /\ Conserving
    /\ sample_size = 2 /\ reactions = 1 /\ generations = 1
    /\ tank_size = MaxTank /\ load_type = "int"
    /\ Cardinality(TTank) = MaxTank
    /\ Len(VReaction) = 1

\* C3 as stated, for a reaction subgraph that returns the very items it
\* received: outside the reaction subgraph (which then holds nothing),
\* pool + sample buffer + in-flight subgraph = items ever created.
C3_Original ==
    (pc # "bond" /\ bondgraph.kind \in {"inert", "bond"}) =>
        Cardinality(TTank) + Len(SComposite) + 0 = created

\* C3 amended: outside the reaction subgraph, pool + sample buffer + holding
\* tank = items ever created minus those the reaction subgraph received and
\* did not return; no item is in two of the three containers.
C3_Conservation ==
    pc # "bond" =>
        /\ Cardinality(TTank) + Len(SComposite) + Cardinality(TNew)
              = created - consumed
        /\ TTank \cap TNew = {}
        /\ Range(SComposite) \cap (TTank \cup TNew) = {}
        /\ Cardinality(Range(SComposite)) = Len(SComposite)

\* Items in the pool and in the holding tank, after the reaction subgraph
\* made a new item from one it received.
C3_Witness ==
    /\ visited = "sreturn"
    /\ TTank # {} /\ TNew # {}
    /\ created > loaded /\ consumed > 0

\* What every step of a run does to the per-generation counter.
C4_Step ==
    /\ VGen' # VGen => pc \in {"oreset", "ogen"}
    /\ VGen' < VGen => pc = "oreset"
    /\ pc = "oreset" => (visited = "otime" /\ VGen' = 0 /\ pc' = "ssample")
    /\ pc = "ogen" => (VGen' = VGen + 1 /\ VGen' = attempts')
    /\ (visited = "dgen" /\ branch = 0) => (pc = "ssample" /\ VGen' = VGen)
    /\ (visited = "dgen" /\ branch = 1) => pc = "sgeneration"
    /\ pc' \notin {"new", "ValueError", "sload", "ConfigurationError"} =>
          resets' = IF pc' \in {"sgeneration", "olog", "otime", "oreset"}
                    THEN advances' ELSE advances' + 1

\* C4: the per-generation counter is written by the reset and by the tick
\* only; the reset sets it to 0, once on entry to the first generation and
\* once after each decision result 1 (after the elapsed-time tick); the tick
\* adds exactly 1, once per reaction attempt; the step after a decision
\* result 0 is the sampler and leaves the counter alone; so the counter
\* never decreases but at a reset.
C4_ResetOncePerGeneration == [][C4_Step]_vars

\* The second generation, after a second reaction attempt.
C4_Witness ==
    /\ visited = "ogen"
    /\ resets = 2 /\ advances = 1 /\ VGen = 2

C6_Original ==
    pc = "done" => (VTime = generations /\ advances = generations - 1)

\* C7 as stated, for the generate modes and a tank no smaller than the
\* sample: the pool holds at least sample_size items whenever the sampler
\* is visited.  (No reaction subgraph of the model returns more items than
\* it received.)
C7_Original ==
    (pc = "ssample" /\ load_type \in GenerateModes /\ tank_size >= sample_size)
        => Cardinality(TTank) >= sample_size

\* C8: construction ends in the graph-shape error iff the reaction subgraph
\* does not expose exactly one control-in, one control-out and one link;
\* the error leaves no container, node or edge behind and is raised by the
\* constructor only; otherwise all of them exist.
C8_AssemblyIffShape ==
    visited # "none" =>
        /\ pc # "ValueError" <=> /\ bondgraph.count_control_in = 1
                                 /\ bondgraph.count_control_out = 1
                                 /\ bondgraph.count_links = 1
        /\ pc = "ValueError" =>
              /\ visited = "new"
              /\ containers = {} /\ nodes = {} /\ graph_edges = <<>>
        /\ pc # "ValueError" =>
              /\ containers = ContainerNames /\ nodes = NodeNames
              /\ Len(graph_edges) = Len(edges) + Len(bond_edges)

\* Two link points, one control-in and one control-out: refused.
C8_Witness ==
    /\ pc = "ValueError"
    /\ bondgraph.count_control_in = 1 /\ bondgraph.count_control_out = 1
    /\ bondgraph.count_links = 2

\* C9 as stated: after a loader visit with an unsupported mode, or with the
\* external mode and no source, the run has ended in a configuration error
\* and the pool is empty; with a generate mode the pool holds tank_size
\* items.
C9_Original ==
    visited = "sload" =>
        /\ (load_type \in {"None", "other"}
              \/ (load_type = "csv" /\ load_file = "None"))
           => (pc = "ConfigurationError" /\ TTank = {})
        /\ load_type \in GenerateModes => Cardinality(TTank) = tank_size

\* ------------------------------------- the decision node on its own
\* The decision node visited once in an assembled graph, for every value of
\* the thresholds and of the three containers it reads, and whatever its
\* fields hold from an earlier visit.
InitDecision ==
    /\ bondgraph = [count_control_in |-> 1, count_control_out |-> 1,
                    count_links |-> 1, kind |-> "inert"]
    /\ sample_size \in 0..MaxSample
    /\ reactions \in 0..MaxReactions
    /\ generations \in 0..MaxGenerations
    /\ tank_size = MaxTank
    /\ load_type = "int"
    /\ load_file = "None"
    /\ containers = ContainerNames
    /\ nodes = NodeNames
    /\ graph_edges = edges \o bond_edges
    /\ \E p \in 0..MaxTank :
          /\ TTank = Generate(0, p, "int")
          /\ TNew = Generate(p, MaxTank - p, "int")
    /\ SComposite = <<>>
    /\ VTime \in 0..(MaxGenerations + 1)
    /\ VGen \in 0..(MaxReactions + 1)
    /\ VBond = [k \in {} |-> Str("")]
    /\ VReaction = <<>>
    /\ \E t \in {0, MaxGenerations}, g \in {0, MaxReactions}, p \in {0, MaxTank} :
          timings = [TimingsDecision_init(generations, reactions, sample_size)
                       EXCEPT !.time = t, !.gen = g, !.tank_size = p]
    /\ pc = "dgen"
    /\ visited = "ogen"
    /\ branch = -1
    /\ loaded = MaxTank
    /\ created = MaxTank
    /\ consumed = 0
    /\ resets = 1
    /\ advances = 0
    /\ attempts = VGen
    /\ Outputs = <<>>
    /\ exported = <<>>

NextDecision == dgen

SpecDecision == InitDecision /\ [][NextDecision]_vars

\* C1: a decision visit returns 0 iff the per-generation counter is below
\* the reactions threshold and the pool holds at least sample_size items;
\* otherwise 1 iff the elapsed-time counter is below the generations
\* threshold; otherwise 2 -- in terms of what the three containers hold at
\* the visit, whatever the node read on an earlier visit.
C1_DecisionIsPure ==
    visited = "dgen" =>
        /\ branch = 0 <=> (VGen < reactions /\ Cardinality(TTank) >= sample_size)
        /\ branch = 1 <=> /\ ~(VGen < reactions /\ Cardinality(TTank) >= sample_size)
                          /\ VTime < generations
        /\ branch = 2 <=> /\ ~(VGen < reactions /\ Cardinality(TTank) >= sample_size)
                          /\ ~(VTime < generations)
        /\ pc = CASE branch = 0 -> "ssample"
                  [] branch = 1 -> "sgeneration"
                  [] branch = 2 -> "ssimulation"

\* The counter has reached the threshold, the time has reached its own, and
\* the node's fields held other values before the visit: the result is 2.
C1_Witness ==
    /\ visited = "dgen"
    /\ reactions = MaxReactions /\ VGen = MaxReactions
    /\ Cardinality(TTank) >= sample_size
    /\ generations = MaxGenerations /\ VTime = generations
    /\ branch = 2

\* ------------------------------- the post-reaction observer on its own
\* Products a reaction subgraph may leave in the sample buffer: RBN
\* particles with open and bonded spikes, a particle of another chemistry,
\* a plain value.
ObserverItems ==
    { Item(1, "RBN", FreshSpikes(1), <<>>),
      Item(2, "RBN", << <<WatsonSpike(1, 2)>> >>, << <<WatsonSpike(2, 3)>> >>),
      Item(3, "RBN", <<>>, <<>>),
      NewItem(4, "Particle"),
      NewItem(5, "int") }

ObserverSamples(lo) ==
    UNION {Samples(ObserverItems, n) : n \in lo..MaxSample}

\* The post-reaction observer visited once in an assembled graph, for every
\* product sample, staged record and per-generation counter value.
InitObserver ==
    /\ bondgraph = [count_control_in |-> 1, count_control_out |-> 1,
                    count_links |-> 1, kind |-> "bond"]
    /\ sample_size = MaxSample
    /\ reactions = MaxReactions
    /\ generations = MaxGenerations
    /\ tank_size = MaxTank
    /\ load_type = "RBN"
    /\ load_file = "None"
    /\ containers = ContainerNames
    /\ nodes = NodeNames
    /\ graph_edges = edges \o bond_edges
    /\ TTank = {}
    /\ TNew = {}
    /\ SComposite \in ObserverSamples(0)
    /\ VTime = 1
    /\ VGen \in 0..MaxReactions
    /\ \E before \in ObserverSamples(1) : VBond = SampleObserver_process(before)
    /\ VReaction = <<>>
    /\ timings = TimingsDecision_init(generations, reactions, sample_size)
    /\ pc = "oreturn"
    /\ visited = "bond"
    /\ branch = -1
    /\ loaded = MaxTank
    /\ created = MaxTank
    /\ consumed = 0
    /\ resets = 1
    /\ advances = 0
    /\ attempts = VGen + 1
    /\ Outputs = <<>>
    /\ exported = <<>>

NextObserver == oreturn

SpecObserver == InitObserver /\ [][NextObserver]_vars

RECURSIVE SpikeSum(_)
SpikeSum(spikes) ==
    IF spikes = <<>> THEN 0
    ELSE Head(spikes)[1].intensity + SpikeSum(Tail(spikes))

NumberAndIntensity(spikes) ==
    [j \in DOMAIN spikes |-> <<spikes[j][1].spikeNumber, spikes[j][1].intensity>>]

\* C10: the row the post-reaction observer records has one slot per
\* product; if every product is an RBN particle, each slot's Intensity is
\* the sum of the intensities of the product's open and bonded spikes and
\* its Open_Spikes and Bonded_Spikes are the product's (spike number,
\* intensity) pairs; otherwise every slot of Prods, Open_Spikes,
\* Bonded_Spikes and Intensity is "N/A".  Either way the row has a
\* Generation value, read from the per-generation counter.
C10_CapabilityBranching ==
    visited = "oreturn" =>
        LET row == VReaction[Len(VReaction)]
            sample == SComposite
            slots == DOMAIN sample
            na == [i \in slots |-> Str("N/A")]
        IN  /\ row.Generation = Num(VGen)
            /\ DOMAIN row.Prods = slots /\ DOMAIN row.Intensity = slots
            /\ DOMAIN row.Open_Spikes = slots /\ DOMAIN row.Bonded_Spikes = slots
            /\ IF \A i \in slots : sample[i].kind = "RBN"
               THEN \A i \in slots :
                      /\ row.Intensity[i] =
                            Num(SpikeSum(sample[i].open_spikes)
                                + SpikeSum(sample[i].bonds))
                      /\ row.Open_Spikes[i] =
                            List(NumberAndIntensity(sample[i].open_spikes))
                      /\ row.Bonded_Spikes[i] =
                            List(NumberAndIntensity(sample[i].bonds))
                      /\ row.Prods[i].desc.ID = sample[i].id
               ELSE /\ row.Prods = na /\ row.Open_Spikes = na
                    /\ row.Bonded_Spikes = na /\ row.Intensity = na

\* Two RBN products, the first with one open and one bonded spike.
C10_Witness ==
    /\ visited = "oreturn"
    /\ Len(SComposite) = 2
    /\ SComposite[1].kind = "RBN" /\ SComposite[2].kind = "RBN"
    /\ SComposite[1].bonds # <<>> /\ SComposite[1].open_spikes # <<>>
    /\ VReaction[1].Intensity = <<Num(5), Num(0)>>

\* -------------------------------- the pre-reaction observer on its own
\* A keyed store as a visit of the pre-reaction observer may find it: empty,
\* or holding the record of an earlier attempt.
ObserverStores ==
    {<<>>} \cup {ReturnObserver_process(b, SampleObserver_process(b), 0) :
                   b \in ObserverSamples(1)}

\* The pre-reaction observer visited once in an assembled graph, for every
\* sample and every keyed store.
InitSample ==
    /\ bondgraph = [count_control_in |-> 1, count_control_out |-> 1,
                    count_links |-> 1, kind |-> "bond"]
    /\ sample_size = MaxSample
    /\ reactions = MaxReactions
    /\ generations = MaxGenerations
    /\ tank_size = MaxTank
    /\ load_type = "RBN"
    /\ load_file = "None"
    /\ containers = ContainerNames
    /\ nodes = NodeNames
    /\ graph_edges = edges \o bond_edges
    /\ TTank = {}
    /\ TNew = {}
    /\ SComposite \in ObserverSamples(0)
    /\ VTime = 1
    /\ VGen = 0
    /\ VBond \in ObserverStores
    /\ VReaction = <<>>
    /\ timings = TimingsDecision_init(generations, reactions, sample_size)
    /\ pc = "osample"
    /\ visited = "ssample"
    /\ branch = -1
    /\ loaded = MaxTank
    /\ created = MaxTank
    /\ consumed = 0
    /\ resets = 1
    /\ advances = 0
    /\ attempts = 0
    /\ Outputs = <<>>
    /\ exported = <<>>

NextSample == osample

SpecSample == InitSample /\ [][NextSample]_vars

\* The identity the pre-reaction observer records for an item.
IdentityOf(x) == IF x.kind \in {"Particle", "RBN"} THEN Id(x.id) ELSE Str("n/a")

C11_Step ==
    (pc = "osample" /\ Len(SComposite) \in {1, 2}) =>
        /\ pc' = "bond"
        /\ VBond'.id1 = IdentityOf(SComposite[1])
        /\ VBond'.obj1 = Obj(SComposite[1])
        /\ IF Len(SComposite) = 2
           THEN /\ VBond'.id2 = IdentityOf(SComposite[2])
                /\ VBond'.obj2 = Obj(SComposite[2])
           ELSE /\ VBond'.id2 = Str("None")
                /\ VBond'.obj2 = Str("None")
        /\ DOMAIN VBond' = DOMAIN VBond \cup {"id1", "id2", "obj1", "obj2"}
        /\ \A k \in DOMAIN VBond \ {"id1", "id2", "obj1", "obj2"} :
               VBond'[k] = VBond[k]

\* C11: a visit of the pre-reaction observer with a sample of one or two
\* items raises no error and stages id1 = the first item's identity if the
\* item is a particle, else "n/a", and obj1 = the first item; with two items
\* id2 and obj2 are taken from the second item in the same way, with one
\* item id2 = "None" and obj2 = "None".  The pushed record has exactly the
\* keys id1, id2, obj1, obj2: no other key of the store is added or changed.
C11_ObserverRecord == [][C11_Step]_vars

\* A one-item sample whose only item is a plain value has been staged.
C11_Witness ==
    /\ visited = "osample" /\ pc = "bond"
    /\ Len(SComposite) = 1
    /\ VBond.id1 = Str("n/a") /\ VBond.obj1 = Obj(SComposite[1])
    /\ VBond.id2 = Str("None") /\ VBond.obj2 = Str("None")

\* C12: the Generation field of a ledger row is the generation the row is
\* recorded in: a row recorded in the same generation as the row before it
\* carries the same Generation value, a row recorded in a later generation
\* carries a larger one.  (attempts counts the reaction attempts since the
\* last reset, so attempts >= 2 at the observer means the row before was
\* recorded in this generation.)
C12_Original ==
    (visited = "oreturn" /\ Len(VReaction) >= 2) =>
        LET row == VReaction[Len(VReaction)]
            before == VReaction[Len(VReaction) - 1]
        IN  IF attempts >= 2
            THEN row.Generation = before.Generation
            ELSE row.Generation.num > before.Generation.num

C13_Step ==
    IF pc = "oreturn"
    THEN /\ Len(VReaction') = Len(VReaction) + 1
         /\ SubSeq(VReaction', 1, Len(VReaction)) = VReaction
    ELSE VReaction' = VReaction

\* C13: the reaction ledger is append-only: a visit of the post-reaction
\* observer adds exactly one row after the rows already present, and a step
\* of any other node leaves the ledger as it is, so the previous contents
\* are always a prefix of the current contents.
C13_AppendOnly == [][C13_Step]_vars

\* A second row has been added after the first.
C13_Witness ==
    /\ visited = "oreturn"
    /\ Len(VReaction) = 2
    /\ VReaction[1].id1 # VReaction[2].id1

C14_Step ==
    /\ pc = "oreturn" =>
         /\ DOMAIN VBond \subseteq DOMAIN VBond'
         /\ \A k \in DOMAIN VBond : VBond'[k] = VBond[k]
         /\ \A k \in {"id1", "id2", "obj1", "obj2"} :
                VReaction'[Len(VReaction')][k] = VBond[k]
    /\ pc \notin {"osample", "oreturn"} => VBond' = VBond

\* C14: the post-reaction observer only extends the keyed store: a visit
\* keeps every key the store already holds at its value, and the row it
\* records carries the id1, id2, obj1, obj2 the pre-reaction observer staged
\* for this attempt; a step of any node other than the two observers leaves
\* the store as it is.
C14_Original == [][C14_Step]_vars

\* ------------------------------------------------- the export on its own
\* Directories Outputs a call may find: any of the export paths up to
\* suffix MaxFiles existing already, with an earlier run's content.
ExportDirs ==
    {[p \in {file_path(k) : k \in ks} |-> Str("earlier export")] :
       ks \in SUBSET (0..MaxFiles)}

\* A tank whose run has ended, with an empty ledger or a ledger of one row,
\* in front of every such directory.
InitExport ==
    /\ bondgraph = [count_control_in |-> 1, count_control_out |-> 1,
                    count_links |-> 1, kind |-> "bond"]
    /\ sample_size = MaxSample
    /\ reactions = MaxReactions
    /\ generations = MaxGenerations
    /\ tank_size = MaxTank
    /\ load_type = "RBN"
    /\ load_file = "None"
    /\ containers = ContainerNames
    /\ nodes = NodeNames
    /\ graph_edges = edges \o bond_edges
    /\ TTank = {}
    /\ TNew = {}
    /\ SComposite = <<>>
    /\ VTime = 1
    /\ VGen = 1
    /\ \E b \in ObserverSamples(1) :
          /\ VBond = ReturnObserver_process(b, SampleObserver_process(b), 0)
          /\ VReaction \in {<<>>, <<VBond>>}
    /\ timings = TimingsDecision_init(generations, reactions, sample_size)
    /\ pc = "done"
    /\ visited = "tterm"
    /\ branch = 2
    /\ loaded = MaxTank
    /\ created = MaxTank
    /\ consumed = MaxTank
    /\ resets = 1
    /\ advances = 0
    /\ attempts = 1
    /\ Outputs \in ExportDirs
    /\ exported = <<>>

NextExport == results_to_csv

SpecExport == InitExport /\ [][NextExport]_vars

\* The suffixes whose path does not exist in a directory.
FreeSuffixes(fs) ==
    {k \in 0..(Cardinality(DOMAIN fs) + 1) : file_path(k) \notin DOMAIN fs}

C15_Step ==
    LET k == CHOOSE f \in FreeSuffixes(Outputs) :
                  \A g \in FreeSuffixes(Outputs) : f <= g
        path == exported'[Len(exported')]
    IN  /\ Len(exported') = Len(exported) + 1
        /\ path = IF k = 0 THEN "Outputs/output.csv"
                  ELSE "Outputs/output_" \o ToString(k) \o ".csv"
        /\ path \notin DOMAIN Outputs
        /\ DOMAIN Outputs' = DOMAIN Outputs \cup {path}
        /\ \A p \in DOMAIN Outputs : Outputs'[p] = Outputs[p]
        /\ Outputs'[path].header[1] = "id1"
        /\ Len(Outputs'[path].rows) = Len(VReaction)
        /\ \A i \in DOMAIN VReaction :
               Outputs'[path].rows[i][1] = VReaction[i].id1
        /\ \A i, j \in DOMAIN exported' : i # j => exported'[i] # exported'[j]

\* C15: export never overwrites: for every set of export files already in
\* the directory, a call of results_to_csv writes the default path if it
\* does not exist, and otherwise the path with the smallest suffix k >= 1
\* that does not exist; every file that existed before the call is left as
\* it was, and the paths of calls in a row are all different.
C15_ExportNeverOverwrites == [][C15_Step]_vars

\* Three calls in front of an existing default file and an existing file
\* of suffix 2: they wrote suffixes 1, 3 and 4.
C15_Witness ==
    /\ exported = <<"Outputs/output_1.csv", "Outputs/output_3.csv",
                    "Outputs/output_4.csv">>
    /\ Outputs["Outputs/output.csv"] = Str("earlier export")
    /\ Outputs["Outputs/output_2.csv"] = Str("earlier export")
    /\ Outputs["Outputs/output_1.csv"].header = VReaction_columns

\* C16: the terminal node is reached only through the decision's terminate
\* branch: the node visited just before the terminal node is the terminate
\* drain ssimulation, and the node visited just before that drain is the
\* decision with result 2.  After a decision with result 0 the sampler is
\* next; after result 1 the generation drain sgeneration is next, then the
\* logger, then the elapsed-time tick, then the per-generation reset, then
\* the sampler, so the terminal node does not follow result 1.
C16_TerminateBranchOnly ==
    /\ pc = "tterm" => visited = "ssimulation"
    /\ visited = "tterm" => branch = 2
    /\ (pc = "ssimulation" \/ visited = "ssimulation") => branch = 2
    /\ pc = "ssimulation" => visited = "dgen"
    /\ visited = "dgen" =>
         pc = CASE branch = 0 -> "ssample"
                [] branch = 1 -> "sgeneration"
                [] branch = 2 -> "ssimulation"
    /\ pc = "sgeneration" => visited = "dgen"
    /\ (pc = "sgeneration" \/ visited \in {"sgeneration", "olog"}) => branch = 1
    /\ visited = "sgeneration" => pc = "olog"
    /\ visited = "olog" => pc = "otime"
    /\ visited = "otime" => pc = "oreset"
    /\ visited = "oreset" => pc = "ssample"

\* A run that advanced a generation on result 1, came back to the
\* decision, and ended at the terminal node on result 2.
C16_Witness ==
    /\ visited = "tterm"
    /\ pc = "done"
    /\ advances >= 1
    /\ branch = 2

\* ------------------------------------------------------------ termination
\* The driver goes on visiting nodes for as long as there is a node to
\* visit: a run does not stop while a step is possible.
\* The load modes of the runs below: none (the default), one that generates
\* plain values and one that generates particles.
RunLoadTypes == {"None", "int", "RBN"}

\* Runs are taken from the constructed tank on, for every configuration with
\* a reaction subgraph that returns as many items as it received and
\* tank_size >= sample_size >= 1.
InitRun ==
    /\ bondgraph \in {bg \in Bondgraphs :
                         /\ bondgraph_ok(bg)
                         /\ bg.kind \in {"inert", "bond", "swap"}}
    /\ sample_size \in 1..MaxSample
    /\ reactions \in 0..MaxReactions
    /\ generations \in 0..MaxGenerations
    /\ \E a \in LoadArgs : /\ load_type = a[1]
                           /\ load_file = a[2]
                           /\ tank_size = a[3]
    /\ load_type \in RunLoadTypes
    /\ tank_size >= sample_size
    /\ containers = ContainerNames
    /\ nodes = NodeNames
    /\ graph_edges = edges \o bond_edges
    /\ TTank = {}
    /\ TNew = {}
    /\ SComposite = <<>>
    /\ VTime = 0
    /\ VGen = 0
    /\ VBond = [k \in {} |-> Str("")]
    /\ VReaction = <<>>
    /\ timings = TimingsDecision_init(generations, reactions, sample_size)
    /\ pc = "sload"
    /\ visited = "new"
    /\ branch = -1
    /\ loaded = 0
    /\ created = 0
    /\ consumed = 0
    /\ resets = 0
    /\ advances = 0
    /\ attempts = 0
    /\ Outputs = <<>>
    /\ exported = <<>>

NextRun ==
    \/ sload
    \/ otime
    \/ oreset
    \/ ssample
    \/ osample
    \/ bond
    \/ oreturn
    \/ sreturn
    \/ ogen
    \/ dgen
    \/ sgeneration
    \/ olog
    \/ ssimulation
    \/ tterm

SpecFair == InitRun /\ [][NextRun]_vars /\ WF_vars(NextRun)

C18_Step ==
    \* the return sampler moves the whole sample buffer into the holding tank
    /\ pc = "sreturn" =>
         /\ TNew' = TNew \cup {SComposite[i] : i \in DOMAIN SComposite}
         /\ SComposite' = <<>>
         /\ TTank' = TTank
    \* the holding tank is emptied, into the pool, on result 1 or 2 only
    /\ pc \notin {"sgeneration", "ssimulation"} => TNew \subseteq TNew'
    /\ pc = "sgeneration" =>
         visited = "dgen" /\ branch = 1 /\ TNew' = {} /\ TTank' = TTank \cup TNew
    /\ pc = "ssimulation" =>
         visited = "dgen" /\ branch = 2 /\ TNew' = {} /\ TTank' = TTank \cup TNew
    \* within a generation the pool never grows
    /\ pc \notin {"sload", "sgeneration", "ssimulation"} =>
         Cardinality(TTank') <= Cardinality(TTank)
    \* an attempt takes sample_size items, none of them a withheld one
    /\ (pc = "ssample" /\ pc' = "osample") =>
         /\ Cardinality(TTank') = Cardinality(TTank) - sample_size
         /\ \A i \in DOMAIN SComposite' : SComposite'[i] \notin TNew
    /\ TTank \cap TNew = {}
    \* a generation's first sample finds the holding tank empty
    /\ (pc = "ssample" /\ visited = "oreset") => TNew = {}

\* C18: products are withheld until the generation boundary: the return
\* sampler moves the whole sample buffer into the holding tank and leaves
\* the pool alone; the holding tank is emptied, into the pool, only by the
\* drains that follow the decision's result 1 or 2; so within a generation
\* the pool never grows and shrinks by sample_size per attempt, no item in
\* the holding tank is sampled, and the holding tank is empty when a
\* generation's first sample is drawn.
C18_ProductsWithheld == [][C18_Step]_vars

\* The second sample of a generation has been drawn while the products of
\* the first attempt are in the holding tank.
C18_Witness ==
    /\ visited = "ssample" /\ pc = "osample"
    /\ attempts = 1
    /\ sample_size = 1
    /\ Cardinality(TNew) = 1
    /\ Cardinality(TTank) = MaxTank - 2
    /\ resets = 2

====
